---- MODULE Spec2Model ----
(***************************************************************************)
(* B2B lead scoring service: the model wrapper (api/app/model.py), the     *)
(* endpoint clients (api/app/endpoint_client.py), the API key check        *)
(* (api/middleware/auth.py), the scoring routes (api/routes/scoring.py)    *)
(* and the data lake writer (api/app/datalake.py).                         *)
(*                                                                         *)
(* Scores are fixed-point numbers in tenths: 7 stands for 0.7.             *)
(* Python's None is the string NoneVal where the other values are strings, *)
(* and the empty sequence where they are numbers (a number v is <<v>>); a  *)
(* tuple is a sequence.                                                    *)
(***************************************************************************)
EXTENDS Integers, Sequences, FiniteSets, TLC

VARIABLES
    models,           \* every LeadScoringModel constructed so far, in order
    model_instance,   \* model.py _model_instance: 0 is None, else an index of models
    metrics,          \* the prometheus collectors of model.py and the active-requests gauge
    call,             \* the last direct call of LeadScoringModel.predict
    req,              \* the route handler invocations in flight or finished
    tasks,            \* BackgroundTasks: the write_scoring_result calls scheduled
    now,              \* the wall clock: how often datetime.now(UTC) was read
    writers,          \* every DataLakeWriter constructed so far, in order
    writer_instance,  \* datalake.py _writer_instance: 0 is None, else an index of writers
    thr               \* the calls of write_scoring_result, one thread each

vars == <<models, model_instance, metrics, call, req, tasks, now,
          writers, writer_instance, thr>>

modelVars == <<models, model_instance, metrics, call>>
routeVars == <<req, tasks, now>>
lakeVars  == <<writers, writer_instance, thr>>

----------------------------------------------------------------------------
(* Bounds of the model *)

NumFeatures == 2       \* how many of the 50 feature names the model keeps
MaxModels == 1         \* LeadScoringModel instances built directly (test fixtures)
MaxPredictCalls == 2   \* direct predict calls
NumRequests == 2       \* concurrent route handler invocations
MaxBatchLen == 1       \* the short batches have 0..MaxBatchLen entries
NumThreads == 2        \* threads calling write_scoring_result
MaxBackendCalls == 1   \* predict and predict_batch calls on instances of any backend
MaxPosts == 1          \* requests posted to the scoring endpoints of a deployment
MaxReloads == 1        \* reload_model calls
MaxWriters == 2        \* data lake writers constructed directly
MaxDirectBatch == 2    \* entries of a list handed to predict_batch directly
MaxBatchCalls == 1     \* direct predict_batch calls with such a list
MaxDispatches == 3     \* requests that enter MetricsMiddleware.dispatch

(* Program constants *)

Unit == 10             \* the score 1.0, in tenths
HotThreshold == 7      \* score >= 0.7
WarmThreshold == 4     \* score >= 0.4
BatchCap == 100        \* len(requests) > 100

NoneVal == "None"

\* str.lower on the provider names used here
Lower(v) ==
    CASE v = "S3" -> "s3"
      [] v = "Azure" -> "azure"
      [] v = "SageMaker" -> "sagemaker"
      [] OTHER -> v

----------------------------------------------------------------------------
(* api/app/endpoint_client.py *)

\* what happens to the request a client sends: answered, timed out,
\* answered with a non-2xx status (botocore's ClientError, raise_for_status),
\* or answered with a body that is not JSON
Transports == {"ok", "timeout", "http_error", "bad_json"}

\* the floats a prediction backend can answer with, in tenths
Scores == 0..Unit

\* the floats the backends answer with where a caller does not list them
\* all: 0.0, the two thresholds, 1.0
AnswerScores == {0, WarmThreshold, HotThreshold, Unit}

\* the JSON documents an endpoint answers with: a list of one float (one of
\* them 1.2), a bare float, an empty list, an object
Payloads ==
    {[ shape |-> "list", value |-> <<s>> ] : s \in AnswerScores \cup {Unit + 2}}
        \cup {[ shape |-> "scalar", value |-> <<8>> ],
              [ shape |-> "list", value |-> <<>> ],
              [ shape |-> "object", value |-> <<>> ]}

NoPayload == [ shape |-> NoneVal, value |-> <<>> ]

\* what a remote endpoint does with one request
RemoteAnswers ==
    {[ transport |-> t, payload |-> NoPayload ] : t \in Transports \ {"ok"}}
        \cup {[ transport |-> "ok", payload |-> p ] : p \in Payloads}

\* np.array(result): a list gives a one-dimensional array of its items,
\* anything else a zero-dimensional array
np_array(payload) ==
    [ ndim  |-> IF payload.shape = "list" THEN 1 ELSE 0,
      items |-> payload.value ]

NoArray == [ ndim |-> -1, items |-> <<>> ]

\* SageMakerEndpointClient.predict and AzureMLEndpointClient.predict: the
\* whole body is one try block whose except clause raises RuntimeError
endpoint_client_predict(client, answer) ==
    IF answer.transport # "ok"
    THEN [ raised |-> TRUE, error_type |-> "RuntimeError",
           cause |-> answer.transport, array |-> NoArray ]
    ELSE [ raised |-> FALSE, error_type |-> NoneVal, cause |-> NoneVal,
           array |-> np_array(answer.payload) ]

\* what the provider does with a health probe: describe_endpoint answers
\* with a status or raises; requests.get answers with a status code or raises
SageMakerProbes ==
    {[ raises |-> FALSE, status |-> st, error |-> NoneVal ] :
        st \in {"InService", "Creating", "Failed"}}
        \cup {[ raises |-> TRUE, status |-> NoneVal, error |-> e ] :
                 e \in {"EndpointConnectionError", "KeyError"}}

AzureProbes ==
    {[ raises |-> FALSE, status |-> <<c>>, error |-> NoneVal ] :
        c \in {200, 204, 503}}
        \cup {[ raises |-> TRUE, status |-> <<>>, error |-> e ] :
                 e \in {"ConnectionError", "Timeout"}}

HealthProbes(client) ==
    IF client = "SageMakerEndpointClient" THEN SageMakerProbes ELSE AzureProbes

health_check_any_answer(client, probe) ==
    [ raised |-> FALSE, result |-> ~probe.raises ]

\* SageMakerEndpointClient.health_check and AzureMLEndpointClient.health_check
health_check(client, probe) ==
    IF probe.raises
    THEN [ raised |-> FALSE, result |-> FALSE ]
    ELSE [ raised |-> FALSE,
           result |-> IF client = "SageMakerEndpointClient"
                      THEN probe.status = "InService"
                      ELSE probe.status = <<200>> ]

\* get_endpoint_client: configured says whether the endpoint name or URL
\* (and for Azure the API key) is given or in the environment
get_endpoint_client(provider, configured) ==
    LET p == Lower(provider) IN
    IF p = "local"
    THEN [ raised |-> FALSE, client |-> NoneVal ]
    ELSE IF p = "sagemaker"
    THEN IF configured
         THEN [ raised |-> FALSE, client |-> "SageMakerEndpointClient" ]
         ELSE [ raised |-> TRUE, client |-> NoneVal ]
    ELSE IF p = "azure"
    THEN IF configured
         THEN [ raised |-> FALSE, client |-> "AzureMLEndpointClient" ]
         ELSE [ raised |-> TRUE, client |-> NoneVal ]
    ELSE [ raised |-> TRUE, client |-> NoneVal ]

----------------------------------------------------------------------------
(* api/app/model.py *)

AllFeatureNames ==
    << "company_revenue", "company_employee_count", "company_age_years",
       "company_funding_total", "company_growth_rate", "industry_tech_score",
       "geographic_tier", "company_public_status", "parent_company_exists",
       "subsidiary_count", "website_visits_30d", "page_views_30d",
       "avg_session_duration_sec", "bounce_rate", "pricing_page_visits",
       "demo_page_visits", "documentation_views", "email_open_rate",
       "email_click_rate", "emails_received", "whitepaper_downloads",
       "webinar_attendance", "social_media_engagement",
       "customer_success_interactions", "support_ticket_count",
       "days_since_first_touch", "days_since_last_touch", "total_touchpoints",
       "multi_channel_engagement", "decision_maker_contacted",
       "champion_identified", "budget_confirmed", "timeline_confirmed",
       "competitor_evaluation", "technical_evaluation_started",
       "contract_reviewed", "security_questionnaire_completed",
       "roi_calculator_used", "custom_demo_requested",
       "integration_questions_asked", "lead_source_quality",
       "attribution_touchpoints", "paid_channel_source", "referral_source",
       "event_source", "product_tier_interest", "feature_requests_count",
       "use_case_alignment", "integration_requirements",
       "deployment_preference" >>

\* positions in _get_feature_names of the names kept, in increasing order:
\* a required amount, a required rate, rates with a default
PickedFeatures == <<1, 14, 18, 19>>

\* _get_feature_names, cut to NumFeatures of its names in their order
feature_names == [i \in 1..NumFeatures |-> AllFeatureNames[PickedFeatures[i]]]

FeatureNameSet == {feature_names[i] : i \in 1..Len(feature_names)}

\* the values a feature mapping holds: a number, or None (also what
\* dict.get gives for an absent key)
FeatureValues == {<<>>, <<0>>, <<1>>}

FeatureMappings == [FeatureNameSet -> FeatureValues]

\* the values of endpoint_provider an instance can hold, which are the
\* endpoint_provider labels of the collectors
Providers == {"local", "SageMaker", "azure"}

Tiers == {"hot", "warm", "cold"}

\* type(e).__name__ of what predict's except clause can see; CollectorError
\* stands for whatever a prometheus collector raises
ErrorTypes == {"ValueError", "RuntimeError", "IndexError", "CollectorError"}

\* self.model_version = "1.0.0"
DefaultVersion == <<"1", ".", "0", ".", "0">>

\* LeadScoringModel.__init__ with no arguments and MODEL_ENDPOINT_PROVIDER
\* unset: the local stub model
NewLeadScoringModel ==
    [ model_version     |-> DefaultVersion,
      endpoint_provider |-> "local",
      endpoint_client   |-> NoneVal,
      model             |-> "stub_booster" ]

\* the model files load_model is pointed at: one that does not exist, and
\* one whose metadata file names version 2.0.0
ModelFiles == {"missing.json", "model_v2.json"}

MetadataVersion == <<"2", ".", "0", ".", "0">>

load_model_dropping_client(m, model_path) ==
    [ raised |-> FALSE,
      instance |-> [m EXCEPT !.model = model_path, !.endpoint_client = NoneVal,
                             !.endpoint_provider = "local"] ]

\* load_model: FileNotFoundError, or the booster and (when the metadata
\* names one) the version replaced
load_model(m, model_path) ==
    IF model_path = "missing.json"
    THEN [ raised |-> TRUE, instance |-> m ]
    ELSE [ raised |-> FALSE,
           instance |-> [m EXCEPT !.model = model_path,
                                  !.model_version = MetadataVersion] ]

\* the provider a constructor call sees: the endpoint_provider argument, or
\* MODEL_ENDPOINT_PROVIDER, or "local"
ProviderArgs == {"local", "SageMaker", "azure", "gcp"}

\* LeadScoringModel.__init__: model_path is NoneVal or a file
LeadScoringModel(model_path, provider, configured) ==
    LET blank == [ model_version     |-> DefaultVersion,
                   endpoint_provider |-> provider,
                   endpoint_client   |-> NoneVal,
                   model             |-> NoneVal ]
    IN IF Lower(provider) # "local"
       THEN LET got == get_endpoint_client(provider, configured) IN
            [ raised |-> got.raised,
              instance |-> [blank EXCEPT !.endpoint_client = got.client] ]
       ELSE IF model_path # NoneVal
       THEN load_model(blank, model_path)
       ELSE [ raised |-> FALSE,
              instance |-> [blank EXCEPT !.model = "stub_booster"] ]

\* a Python dict: its items in insertion order, the keys distinct
dict_get_first(d, key) ==
    IF d = <<>> THEN <<>> ELSE d[1][2]

\* dict.get(key): the value stored under the key, None when there is none
dict_get(d, key) ==
    IF \E i \in 1..Len(d) : d[i][1] = key
    THEN d[CHOOSE i \in 1..Len(d) : d[i][1] = key][2]
    ELSE <<>>

\* what preprocess_features reads of a dict: features.get(feature_name) for
\* each feature name
Lookups(d) == [n \in FeatureNameSet |-> dict_get(d, n)]

RECURSIVE LastMissingFrom(_, _)
LastMissingFrom(features, i) ==
    IF i > Len(feature_names) THEN 0
    ELSE LET later == LastMissingFrom(features, i + 1) IN
         IF later # 0 THEN later
         ELSE IF features[feature_names[i]] = <<>> THEN i ELSE 0

\* the index in feature_names of the first feature whose value is None,
\* 0 when there is none
RECURSIVE FirstMissingFrom(_, _)
FirstMissingFrom(features, i) ==
    IF i > Len(feature_names) THEN 0
    ELSE IF features[feature_names[i]] = <<>> THEN i
    ELSE FirstMissingFrom(features, i + 1)

\* preprocess_features: the row of floats in feature_names order, or
\* ValueError naming the first missing feature
preprocess_features(features) ==
    LET k == FirstMissingFrom(features, 1) IN
    IF k # 0
    THEN [ raised |-> TRUE, error_type |-> "ValueError",
           missing |-> feature_names[k], X |-> <<>> ]
    ELSE [ raised |-> FALSE, error_type |-> NoneVal, missing |-> NoneVal,
           X |-> [i \in 1..Len(feature_names) |-> features[feature_names[i]][1]] ]

Abs(x) == IF x < 0 THEN -x ELSE x

\* confidence = abs(2 * score - 1)
Confidence(score) == Abs(2 * score - Unit)

TierOfStrict(score) ==
    IF score > HotThreshold THEN "hot"
    ELSE IF score > WarmThreshold THEN "warm"
    ELSE "cold"

\* predict, "Determine tier"
TierOf(score) ==
    IF score >= HotThreshold THEN "hot"
    ELSE IF score >= WarmThreshold THEN "warm"
    ELSE "cold"

\* what the local booster does with one row: model.predict(dmatrix) is an
\* array of one float
LocalAnswer(score) ==
    [ transport |-> "ok", payload |-> [ shape |-> "list", value |-> <<score>> ] ]

\* what the backend of an instance can do with one row
Answers(m) ==
    IF m.endpoint_client # NoneVal THEN RemoteAnswers
    ELSE {LocalAnswer(s) : s \in AnswerScores}

\* array[0]: IndexError on a zero-dimensional or empty array
Index0(array) ==
    IF array.ndim = 0 \/ array.items = <<>>
    THEN [ raised |-> TRUE, value |-> -1 ]
    ELSE [ raised |-> FALSE, value |-> array.items[1] ]

\* the collector call of predict that raises in this call, if any
CollectorFaults == {"none", "counter", "score_hist", "confidence_hist",
                    "error_counter", "latency_hist"}

Raised(error_type, missing, backend, tier, recorded) ==
    [ raised |-> TRUE, error_type |-> error_type, missing |-> missing,
      backend |-> backend, tier |-> tier, recorded |-> recorded,
      result |-> <<>> ]

\* predict, the try block: preprocess, ask the backend, classify, record;
\* recorded are the collectors updated
predict_try(m, features, answer, fault) ==
    LET pre     == preprocess_features(features)
        backend == IF m.endpoint_client # NoneVal THEN "remote" ELSE "local"
        got     == IF m.endpoint_client # NoneVal
                   THEN endpoint_client_predict(m.endpoint_client, answer)
                   ELSE [ raised |-> FALSE, error_type |-> NoneVal,
                          cause |-> NoneVal,
                          array |-> np_array(answer.payload) ]
        pred    == Index0(got.array)
        score   == pred.value
        tier    == TierOf(score)
    IN IF pre.raised
       THEN Raised(pre.error_type, pre.missing, "none", NoneVal, {})
       ELSE IF got.raised
       THEN Raised(got.error_type, NoneVal, backend, NoneVal, {})
       ELSE IF pred.raised
       THEN Raised("IndexError", NoneVal, backend, NoneVal, {})
       ELSE IF fault = "counter"
       THEN Raised("CollectorError", NoneVal, backend, tier, {})
       ELSE IF fault = "score_hist"
       THEN Raised("CollectorError", NoneVal, backend, tier, {"counter"})
       ELSE IF fault = "confidence_hist"
       THEN Raised("CollectorError", NoneVal, backend, tier,
                   {"counter", "score"})
       ELSE [ raised |-> FALSE, error_type |-> NoneVal, missing |-> NoneVal,
              backend |-> backend, tier |-> tier,
              recorded |-> {"counter", "score", "confidence"},
              result |-> <<score, Confidence(score), tier>> ]

\* predict: the try block, then the except clause (count the error under
\* its type name and raise it again), then the finally clause (observe the
\* latency); an exception raised in a clause replaces what was on its way out
predict(m, features, answer, fault) ==
    LET t == predict_try(m, features, answer, fault)
        e == IF ~t.raised THEN t @@ [ error_label |-> NoneVal ]
             ELSE IF fault = "error_counter"
             THEN [t EXCEPT !.error_type = "CollectorError"]
                      @@ [ error_label |-> NoneVal ]
             ELSE [t EXCEPT !.recorded = @ \cup {"errors"}]
                      @@ [ error_label |-> t.error_type ]
        f == IF fault = "latency_hist"
             THEN [e EXCEPT !.raised = TRUE, !.error_type = "CollectorError",
                            !.result = <<>>]
             ELSE [e EXCEPT !.recorded = @ \cup {"latency"}]
    IN f @@ [ provider |-> m.endpoint_provider ]

RecordPredictOnReturn(mt, out) ==
    [mt EXCEPT
       !.predictions = IF "counter" \in out.recorded
                       THEN [@ EXCEPT ![<<out.provider, out.tier>>] = @ + 1]
                       ELSE @,
       !.score_obs = IF "score" \in out.recorded THEN @ + 1 ELSE @,
       !.confidence_obs = IF "confidence" \in out.recorded THEN @ + 1 ELSE @,
       !.errors = IF "errors" \in out.recorded
                  THEN [@ EXCEPT ![<<out.provider, out.error_label>>] = @ + 1]
                  ELSE @,
       !.latency_obs = IF "latency" \in out.recorded /\ ~out.raised
                       THEN @ + 1 ELSE @]

\* what one predict call does to the collectors
RecordPredict(mt, out) ==
    [mt EXCEPT
       !.predictions = IF "counter" \in out.recorded
                       THEN [@ EXCEPT ![<<out.provider, out.tier>>] = @ + 1]
                       ELSE @,
       !.score_obs = IF "score" \in out.recorded THEN @ + 1 ELSE @,
       !.confidence_obs = IF "confidence" \in out.recorded THEN @ + 1 ELSE @,
       !.errors = IF "errors" \in out.recorded
                  THEN [@ EXCEPT ![<<out.provider, out.error_label>>] = @ + 1]
                  ELSE @,
       !.latency_obs = IF "latency" \in out.recorded THEN @ + 1 ELSE @]

\* predict_batch: observe the batch size, then predict each entry in turn;
\* the first exception ends the call
RECURSIVE predict_each_skipping(_, _, _, _, _)
predict_each_skipping(m, features_list, answers, i, acc) ==
    IF i > Len(features_list) THEN acc
    ELSE LET out == predict(m, features_list[i], answers[i], "none")
             mt  == RecordPredict(acc.metrics, out)
         IN predict_each_skipping(m, features_list, answers, i + 1,
                [ raised |-> FALSE, error_type |-> NoneVal,
                  results |-> IF out.raised THEN acc.results
                              ELSE Append(acc.results, out.result),
                  metrics |-> mt ])

RECURSIVE predict_each(_, _, _, _, _)
predict_each(m, features_list, answers, i, acc) ==
    IF i > Len(features_list) THEN acc
    ELSE LET out == predict(m, features_list[i], answers[i], "none")
             mt  == RecordPredict(acc.metrics, out)
         IN IF out.raised
            THEN [ raised |-> TRUE, error_type |-> out.error_type,
                   results |-> <<>>, metrics |-> mt ]
            ELSE predict_each(m, features_list, answers, i + 1,
                              [ raised |-> FALSE, error_type |-> NoneVal,
                                results |-> Append(acc.results, out.result),
                                metrics |-> mt ])

predict_batch(m, features_list, answers, mt) ==
    predict_each(m, features_list, answers, 1,
                 [ raised |-> FALSE, error_type |-> NoneVal, results |-> <<>>,
                   metrics |-> [mt EXCEPT !.batch_obs = @ + 1] ])

\* save_model, get_feature_importance: both use self.model, which is None on
\* an instance constructed for a remote endpoint (AttributeError); neither
\* assigns an attribute
save_model(m) == [ raised |-> m.model = NoneVal, instance |-> m ]

get_feature_importance(m) == [ raised |-> m.model = NoneVal, instance |-> m ]

\* get_model_info
get_model_info(m) ==
    [ raised |-> FALSE, instance |-> m,
      info |-> [ version |-> m.model_version,
                 n_features |-> Len(feature_names) ] ]

InitMetrics ==
    [ predictions    |-> [k \in Providers \X Tiers |-> 0],
      errors         |-> [k \in Providers \X ErrorTypes |-> 0],
      score_obs      |-> 0,
      confidence_obs |-> 0,
      latency_obs    |-> 0,
      batch_obs      |-> 0,
      active_requests |-> 0 ]

NoCall == [ called |-> FALSE ]

----------------------------------------------------------------------------
(* Direct use of LeadScoringModel, as the unit tests do *)

\* the model fixture: LeadScoringModel()
ConstructModel ==
    /\ Len(models) < MaxModels
    /\ models' = Append(models, NewLeadScoringModel)
    /\ UNCHANGED <<model_instance, metrics, call>>
    /\ UNCHANGED <<routeVars, lakeVars>>

\* model.predict(features) on a constructed instance
PredictCall ==
    /\ metrics.latency_obs < MaxPredictCalls
    /\ \E m \in 1..Len(models), features \in FeatureMappings, pred \in Scores :
         LET out == predict(models[m], features, LocalAnswer(pred), "none") IN
         /\ call' = [ called |-> TRUE, model |-> m, features |-> features,
                      pred |-> pred, out |-> out ]
         /\ metrics' = RecordPredict(metrics, out)
    /\ UNCHANGED <<models, model_instance>>
    /\ UNCHANGED <<routeVars, lakeVars>>

\* the number of collector updates made so far
RECURSIVE SumOver(_, _)
SumOver(f, keys) ==
    IF keys = {} THEN 0
    ELSE LET k == CHOOSE x \in keys : TRUE IN f[k] + SumOver(f, keys \ {k})

Recorded(mt) ==
    SumOver(mt.predictions, DOMAIN mt.predictions)
        + SumOver(mt.errors, DOMAIN mt.errors)
        + mt.score_obs + mt.confidence_obs + mt.latency_obs + mt.batch_obs

\* the test suite's sample_features, and the same with the last feature
\* left out
sample_features == [n \in FeatureNameSet |-> <<1>>]

incomplete_features ==
    [sample_features EXCEPT ![feature_names[Len(feature_names)]] = <<>>]

\* the arguments and environment of a constructor call: a local model from
\* the stub or from a file, or a provider with or without its endpoint
\* configured
ConstructorArgs ==
    {[ model_path |-> f, provider |-> "local", configured |-> FALSE ] :
        f \in ModelFiles \cup {NoneVal}}
        \cup {[ model_path |-> NoneVal, provider |-> p, configured |-> c ] :
                 p \in ProviderArgs \ {"local"}, c \in BOOLEAN}

\* LeadScoringModel(model_path, endpoint_provider, endpoint_config); a
\* constructor that raises leaves no instance behind
ConstructModelWith ==
    /\ Len(models) < MaxModels
    /\ \E args \in ConstructorArgs :
         LET made == LeadScoringModel(args.model_path, args.provider,
                                      args.configured)
         IN /\ models' = IF made.raised THEN models
                         ELSE Append(models, made.instance)
            /\ call' = [ called |-> TRUE, method |-> "__init__",
                         provider |-> args.provider, raised |-> made.raised ]
    /\ UNCHANGED <<model_instance, metrics>>
    /\ UNCHANGED <<routeVars, lakeVars>>

\* the worlds a predict call runs in: the backend answering in any way and
\* any one collector call failing for the complete sample, and the
\* incomplete sample, for which no backend is asked
PredictWorlds(m) ==
    {[ features |-> sample_features, answer |-> a, fault |-> f ] :
        a \in Answers(m), f \in CollectorFaults}
        \cup {[ features |-> incomplete_features, answer |-> a, fault |-> f ] :
                 a \in {LocalAnswer(Unit)},
                 f \in {"none", "error_counter", "latency_hist"}}

\* model.predict(features) on an instance of any backend
PredictOn ==
    /\ Recorded(metrics) < MaxBackendCalls
    /\ \E m \in 1..Len(models) :
         \E w \in PredictWorlds(models[m]) :
           LET out == predict(models[m], w.features, w.answer, w.fault) IN
           /\ call' = [ called |-> TRUE, method |-> "predict", model |-> m,
                        features |-> w.features, answer |-> w.answer,
                        fault |-> w.fault, out |-> out ]
           /\ metrics' = RecordPredict(metrics, out)
    /\ UNCHANGED <<models, model_instance>>
    /\ UNCHANGED <<routeVars, lakeVars>>

\* model.predict(features) on an instance of any backend, every collector
\* call returning
PredictRecorded ==
    /\ metrics.latency_obs < MaxPredictCalls
    /\ \E m \in 1..Len(models) :
         \E w \in {x \in PredictWorlds(models[m]) : x.fault = "none"} :
           LET out == predict(models[m], w.features, w.answer, w.fault) IN
           /\ call' = [ called |-> TRUE, method |-> "predict", model |-> m,
                        features |-> w.features, answer |-> w.answer,
                        fault |-> w.fault, before |-> metrics, out |-> out ]
           /\ metrics' = RecordPredict(metrics, out)
    /\ UNCHANGED <<models, model_instance>>
    /\ UNCHANGED <<routeVars, lakeVars>>

\* model.predict_batch(features_list)
PredictBatchOn ==
    /\ Recorded(metrics) < MaxBackendCalls
    /\ \E m \in 1..Len(models), k \in 0..MaxBatchLen :
         \E answers \in [1..k -> Answers(models[m])] :
           LET out == predict_batch(models[m], [i \in 1..k |-> sample_features],
                                    answers, metrics)
           IN /\ call' = [ called |-> TRUE, method |-> "predict_batch",
                           model |-> m, answers |-> answers,
                           raised |-> out.raised, results |-> out.results ]
              /\ metrics' = out.metrics
    /\ UNCHANGED <<models, model_instance>>
    /\ UNCHANGED <<routeVars, lakeVars>>

\* what a backend answers to the entries of a list: a low score, a high
\* score, and for an endpoint a timeout
BatchAnswers(m) ==
    {a \in Answers(m) :
        \/ a.transport = "timeout"
        \/ /\ a.transport = "ok"
           /\ a.payload.shape = "list"
           /\ a.payload.value \in {<<0>>, <<Unit>>}}

\* model.predict_batch(features_list) with a list of complete and
\* incomplete mappings
PredictBatchCall ==
    /\ metrics.batch_obs < MaxBatchCalls
    /\ \E m \in 1..Len(models), k \in 0..MaxDirectBatch :
         \E features_list \in [1..k -> {sample_features, incomplete_features}],
            answers \in [1..k -> BatchAnswers(models[m])] :
           LET out == predict_batch(models[m], features_list, answers, metrics)
           IN /\ call' = [ called |-> TRUE, method |-> "predict_batch",
                           model |-> m, features_list |-> features_list,
                           answers |-> answers, before |-> metrics,
                           raised |-> out.raised,
                           error_type |-> out.error_type,
                           results |-> out.results ]
              /\ metrics' = out.metrics
    /\ UNCHANGED <<models, model_instance>>
    /\ UNCHANGED <<routeVars, lakeVars>>

\* model.load_model(model_path) on a constructed instance
LoadModelOn ==
    /\ \E m \in 1..Len(models), model_path \in ModelFiles :
         LET out == load_model(models[m], model_path) IN
         /\ models' = [models EXCEPT ![m] = out.instance]
         /\ call' = [ called |-> TRUE, method |-> "load_model", model |-> m,
                      model_path |-> model_path, raised |-> out.raised ]
    /\ UNCHANGED <<model_instance, metrics>>
    /\ UNCHANGED <<routeVars, lakeVars>>

\* model.save_model(model_path)
SaveModelOn ==
    /\ \E m \in 1..Len(models) :
         LET out == save_model(models[m]) IN
         /\ models' = [models EXCEPT ![m] = out.instance]
         /\ call' = [ called |-> TRUE, method |-> "save_model", model |-> m,
                      raised |-> out.raised ]
    /\ UNCHANGED <<model_instance, metrics>>
    /\ UNCHANGED <<routeVars, lakeVars>>

\* model.get_model_info()
GetModelInfoOn ==
    /\ \E m \in 1..Len(models) :
         LET out == get_model_info(models[m]) IN
         /\ models' = [models EXCEPT ![m] = out.instance]
         /\ call' = [ called |-> TRUE, method |-> "get_model_info",
                      model |-> m, raised |-> out.raised, info |-> out.info ]
    /\ UNCHANGED <<model_instance, metrics>>
    /\ UNCHANGED <<routeVars, lakeVars>>

\* model.get_feature_importance()
GetFeatureImportanceOn ==
    /\ \E m \in 1..Len(models) :
         LET out == get_feature_importance(models[m]) IN
         /\ models' = [models EXCEPT ![m] = out.instance]
         /\ call' = [ called |-> TRUE, method |-> "get_feature_importance",
                      model |-> m, raised |-> out.raised ]
    /\ UNCHANGED <<model_instance, metrics>>
    /\ UNCHANGED <<routeVars, lakeVars>>

\* model.endpoint_client.health_check() on an instance with a client
HealthCheckOn ==
    /\ \E m \in 1..Len(models) :
         /\ models[m].endpoint_client # NoneVal
         /\ \E probe \in HealthProbes(models[m].endpoint_client) :
              call' = [ called |-> TRUE, method |-> "health_check",
                        model |-> m, probe |-> probe,
                        out |-> health_check(models[m].endpoint_client,
                                             probe) ]
    /\ UNCHANGED <<models, model_instance, metrics>>
    /\ UNCHANGED <<routeVars, lakeVars>>

\* the dicts handed to preprocess_features: the feature names and one key
\* the model does not know, any of them left out, in any insertion order
DictKeys == FeatureNameSet \cup {"utm_campaign"}

KeyOrders ==
    {o \in UNION {[1..k -> DictKeys] : k \in 0..Cardinality(DictKeys)} :
        \A i, j \in 1..Len(o) : o[i] = o[j] => i = j}

Dicts ==
    UNION {{[i \in 1..Len(o) |-> <<o[i], v[i]>>] :
               v \in [1..Len(o) -> FeatureValues]} : o \in KeyOrders}

\* model.preprocess_features(features) on a dict; after is the dict as the
\* call leaves it, which only reads it. The method reads nothing but its
\* argument and feature_names, so one call per behaviour shows all of it.
PreprocessCall ==
    /\ ~call.called
    /\ \E m \in 1..Len(models), d \in Dicts :
         call' = [ called |-> TRUE, method |-> "preprocess_features",
                   model |-> m, features |-> d, after |-> d,
                   out |-> preprocess_features(Lookups(d)) ]
    /\ UNCHANGED <<models, model_instance, metrics>>
    /\ UNCHANGED <<routeVars, lakeVars>>

----------------------------------------------------------------------------
(* api/middleware/auth.py *)

\* os.getenv("API_KEYS", "demo-api-key-123,test-key-456").split(",")
VALID_API_KEYS == {"demo-api-key-123", "test-key-456"}

\* the X-API-Key header of a request: absent, a configured key, another key
ApiKeys == {NoneVal, "demo-api-key-123", "invalid-key"}

verify_api_key_any(api_key) ==
    IF api_key = NoneVal
    THEN [ raised |-> TRUE, status |-> 401, detail |-> "API key required" ]
    ELSE [ raised |-> FALSE, status |-> 0, detail |-> NoneVal ]

\* verify_api_key: HTTPException 401, or the key
verify_api_key(api_key) ==
    IF api_key = NoneVal
    THEN [ raised |-> TRUE, status |-> 401, detail |-> "API key required" ]
    ELSE IF api_key \notin VALID_API_KEYS
    THEN [ raised |-> TRUE, status |-> 401, detail |-> "Invalid API key" ]
    ELSE [ raised |-> FALSE, status |-> 0, detail |-> NoneVal ]

----------------------------------------------------------------------------
(* api/schemas/lead_features.py *)

\* LeadFeatures: the declaration of a field: its default, its limits (ge,
\* le), and whether validate_rate is attached to it; <<>> where there is none
LeadFeaturesField(name) ==
    CASE name = "company_revenue" ->
           [ default |-> <<>>, ge |-> <<0>>, le |-> <<>>, rate |-> FALSE ]
      [] name = "company_employee_count" ->
           [ default |-> <<>>, ge |-> <<1>>, le |-> <<>>, rate |-> FALSE ]
      [] name = "company_age_years" ->
           [ default |-> <<>>, ge |-> <<0>>, le |-> <<>>, rate |-> FALSE ]
      [] name = "company_funding_total" ->
           [ default |-> <<0>>, ge |-> <<0>>, le |-> <<>>, rate |-> FALSE ]
      [] name = "company_growth_rate" ->
           [ default |-> <<>>, ge |-> <<>>, le |-> <<>>, rate |-> FALSE ]
      [] name = "bounce_rate" ->
           [ default |-> <<>>, ge |-> <<0>>, le |-> <<1>>, rate |-> TRUE ]
      [] name = "email_open_rate" ->
           [ default |-> <<0>>, ge |-> <<0>>, le |-> <<1>>, rate |-> TRUE ]
      [] name = "email_click_rate" ->
           [ default |-> <<0>>, ge |-> <<0>>, le |-> <<1>>, rate |-> TRUE ]

\* validate_rate: ValueError unless 0 <= v <= 1
validate_rate(v) ==
    IF ~(0 <= v /\ v <= 1) THEN [ raised |-> TRUE, value |-> <<>> ]
    ELSE [ raised |-> FALSE, value |-> <<v>> ]

FieldValueClamped(name, posted) ==
    LET f == LeadFeaturesField(name)
        v == IF posted = <<>> THEN f.default ELSE posted
    IN IF v = <<>> THEN [ raised |-> TRUE, value |-> <<>> ]
       ELSE IF f.ge # <<>> /\ v[1] < f.ge[1]
       THEN [ raised |-> FALSE, value |-> f.ge ]
       ELSE IF f.le # <<>> /\ v[1] > f.le[1]
       THEN [ raised |-> FALSE, value |-> f.le ]
       ELSE [ raised |-> FALSE, value |-> v ]

\* a posted value against its field: the value, or the default when nothing
\* was posted, or an error when there is neither, when the value is outside
\* the limits or when the field's validator raises
FieldValue(name, posted) ==
    LET f == LeadFeaturesField(name) IN
    IF posted = <<>>
    THEN IF f.default = <<>> THEN [ raised |-> TRUE, value |-> <<>> ]
         ELSE [ raised |-> FALSE, value |-> f.default ]
    ELSE IF f.ge # <<>> /\ posted[1] < f.ge[1]
    THEN [ raised |-> TRUE, value |-> <<>> ]
    ELSE IF f.le # <<>> /\ posted[1] > f.le[1]
    THEN [ raised |-> TRUE, value |-> <<>> ]
    ELSE IF f.rate THEN validate_rate(posted[1])
    ELSE [ raised |-> FALSE, value |-> posted ]

validate_features_lenient(posted) ==
    [ raised |-> FALSE, features |-> posted ]

\* the features object of a request body validated as LeadFeatures and
\* turned back into a dict by model_dump(); a body that does not validate is
\* answered 422 before the handler is called
validate_features(posted) ==
    IF \E n \in FeatureNameSet : FieldValue(n, posted[n]).raised
    THEN [ raised |-> TRUE, features |-> posted ]
    ELSE [ raised |-> FALSE,
           features |-> [n \in FeatureNameSet |-> FieldValue(n, posted[n]).value] ]

----------------------------------------------------------------------------
(* api/routes/scoring.py: the handlers. request_id and include_details     *)
(* change no behaviour modelled here and are left out.                     *)

LeadIds == {"BATCH-0", "BATCH-1"}

OtherLead(lead) == IF lead = "BATCH-0" THEN "BATCH-1" ELSE "BATCH-0"

\* the lead_id of the i-th entry of a request body: the entries of a batch
\* name the two leads in turn
LeadAt(first, i) == IF i % 2 = 1 THEN first ELSE OtherLead(first)

\* the sizes of the batches a caller sends: the short ones, exactly the cap,
\* and one more than the cap
BatchSizes == (0..MaxBatchLen) \cup {BatchCap, BatchCap + 1}

\* request.features.model_dump() of a validated request: every field present
features_dict == [n \in FeatureNameSet |-> <<1>>]

BatchTooLargeOffByOne(n) == n > BatchCap + 1

\* if len(requests) > 100
BatchTooLarge(n) == n > BatchCap

\* model.model_version.replace('.', '')
StripDots(version) == SelectSeq(version, LAMBDA c : c # ".")

\* f"xgboost_lead_score_v{...}"
ModelName(version) == <<"xgboost_lead_score_v">> \o StripDots(version)

ResponseTiers == {"A", "B", "C", "D", "E"}

\* ScoreInfo: raw_score in [0, 1], bucket an int in 1..5, validate_tier
ScoreInfoValid(raw_score, bucket, tier) ==
    /\ raw_score \in 0..Unit
    /\ bucket \in 1..5
    /\ tier \in ResponseTiers

\* build_scoring_response: the response, or pydantic's ValidationError
build_scoring_response(lead_id, raw_score, bucket, tier, version) ==
    IF ScoreInfoValid(raw_score, bucket, tier)
    THEN [ raised |-> FALSE,
           response |-> [ lead_id |-> lead_id,
                          model   |-> [ name |-> ModelName(version),
                                        version |-> version ],
                          score   |-> [ raw_score |-> raw_score,
                                        bucket |-> bucket,
                                        tier |-> tier ] ] ]
    ELSE [ raised |-> TRUE, response |-> NoneVal ]

\* one lead through a handler's try block, out being what model.predict did:
\*   raw_score, bucket, tier, latency_ms = model.predict(features_dict)
\*   response = build_scoring_response(...)
\*   background_tasks.add_task(write_scoring_result, ..., timestamp=ts, ...)
ScoreOneLead(r, m, lead_id, out, ts) ==
    IF out.raised
    THEN [ raised |-> TRUE, error_type |-> out.error_type,
           response |-> NoneVal, task |-> NoneVal ]
    ELSE IF Len(out.result) # 4
    THEN [ raised |-> TRUE, error_type |-> "ValueError",
           response |-> NoneVal, task |-> NoneVal ]
    ELSE LET raw_score == out.result[1]
             bucket    == out.result[2]
             tier      == out.result[3]
             built     == build_scoring_response(lead_id, raw_score, bucket,
                                                 tier, m.model_version)
         IN IF built.raised
            THEN [ raised |-> TRUE, error_type |-> "ValidationError",
                   response |-> NoneVal, task |-> NoneVal ]
            ELSE [ raised |-> FALSE, error_type |-> NoneVal,
                   response |-> built.response,
                   task |-> [ req |-> r, lead_id |-> lead_id,
                              bucket |-> bucket, tier |-> tier,
                              raw_score |-> raw_score,
                              model_version |-> m.model_version,
                              timestamp |-> ts,
                              features |-> req[r].features ] ]

\* a handler invocation: its arguments (n entries, the first one's lead_id
\* being first), its position, its locals and what it answered
\* the X-API-Key header and the features are those of the test suite
\* unless the action that posts the request says otherwise; posted is the
\* features object of the body as it was sent; error_type is
\* the exception that ended the request, if any; obtained is the instance
\* get_model returned and used the instances predict was called on, each
\* with the instance the global named at that moment
NewRequest(kind, first, n) ==
    [ kind |-> kind, first |-> first, n |-> n, pc |-> "get_model", model |-> 0,
      batch_timestamp |-> -1, i |-> 1, responses |-> <<>>, status |-> 0,
      predict_calls |-> 0, predict_returns |-> 0,
      api_key |-> "demo-api-key-123", features |-> features_dict,
      posted |-> features_dict, error_type |-> NoneVal,
      obtained |-> 0, used |-> <<>> ]

\* a handler that has answered: its locals are gone
Finished(q, status) ==
    [q EXCEPT !.pc = "done", !.status = status, !.model = 0,
              !.batch_timestamp = -1, !.i = 1]

\* a request that ended with an exception
Failed(q, status, error_type) ==
    [Finished(q, status) EXCEPT !.error_type = error_type]

\* POST /api/v1/score with the test suite's key and sample request reaches
\* score_lead
ScoreLeadCall ==
    /\ Len(req) < NumRequests
    /\ \E lead_id \in LeadIds :
         req' = Append(req, NewRequest("single", lead_id, 1))
    /\ UNCHANGED <<tasks, now>>
    /\ UNCHANGED <<modelVars, lakeVars>>

\* POST /api/v1/score/batch with the test suite's key and n sample requests
\* reaches score_leads_batch: the size check
ScoreLeadsBatchCall ==
    /\ Len(req) < NumRequests
    /\ \E n \in BatchSizes :
         req' = Append(req,
                  IF BatchTooLarge(n)
                  THEN Failed(NewRequest("batch", "BATCH-0", n), 400,
                              "HTTPException")
                  ELSE NewRequest("batch", "BATCH-0", n))
    /\ UNCHANGED <<tasks, now>>
    /\ UNCHANGED <<modelVars, lakeVars>>

\* the feature objects posted: the sample, the sample with its last field
\* left out, with a negative company_revenue, with a bounce_rate over 1
out_of_range_features ==
    [sample_features EXCEPT !["company_revenue"] = <<-1>>]

above_range_features ==
    [sample_features EXCEPT !["bounce_rate"] = <<2>>]

PostedFeatures ==
    {sample_features, incomplete_features, out_of_range_features,
     above_range_features}

\* what the framework does with a posted request before the handler: the
\* get_current_user dependency (verify_api_key) first, then the body
Admit(q, api_key, posted, entries) ==
    LET auth  == verify_api_key(api_key)
        valid == validate_features(posted)
        p     == [q EXCEPT !.api_key = api_key, !.features = posted,
                           !.posted = posted]
    IN IF auth.raised THEN Failed(p, auth.status, "HTTPException")
       ELSE IF entries > 0 /\ valid.raised
       THEN Failed(p, 422, "RequestValidationError")
       ELSE IF q.kind = "batch" /\ BatchTooLarge(entries)
       THEN Failed(p, 400, "HTTPException")
       ELSE [p EXCEPT !.features = IF entries > 0 THEN valid.features ELSE @]

\* POST /api/v1/score with any key and any features
PostScore ==
    /\ Len(req) < MaxPosts
    /\ \E api_key \in ApiKeys, posted \in PostedFeatures, lead_id \in LeadIds :
         req' = Append(req, Admit(NewRequest("single", lead_id, 1), api_key,
                                  posted, 1))
    /\ UNCHANGED <<tasks, now>>
    /\ UNCHANGED <<modelVars, lakeVars>>

\* POST /api/v1/score/batch with any key and n entries of the same features
PostScoreBatch ==
    /\ Len(req) < MaxPosts
    /\ \E api_key \in ApiKeys, posted \in PostedFeatures, n \in BatchSizes :
         req' = Append(req, Admit(NewRequest("batch", "BATCH-0", n), api_key,
                                  posted, n))
    /\ UNCHANGED <<tasks, now>>
    /\ UNCHANGED <<modelVars, lakeVars>>

\* where a handler goes on once get_model has returned
AfterGetModel(q, m) ==
    [q EXCEPT !.model = m, !.obtained = m,
              !.pc = IF q.kind = "single" THEN "score"
                     ELSE IF q.kind = "ready" THEN "ready"
                     ELSE "batch_begin"]

\* where a handler goes when get_model raised: the scoring handlers raise
\* HTTPException 500 from their except clause, readiness_check returns a
\* 503 response from its own
GetModelRaised(q, error_type) ==
    IF q.kind = "ready" THEN Finished(q, 503)
    ELSE Failed(q, 500, error_type)

\* get_model: "if _model_instance is None" and, when there is an instance,
\* "return _model_instance"
GetModelCheck(r) ==
    /\ req[r].pc = "get_model"
    /\ req' = [req EXCEPT ![r] =
                 IF model_instance = 0
                 THEN [@ EXCEPT !.pc = "construct"]
                 ELSE AfterGetModel(@, model_instance)]
    /\ UNCHANGED <<tasks, now>>
    /\ UNCHANGED <<modelVars, lakeVars>>

\* get_model: _model_instance = LeadScoringModel()
GetModelConstruct(r) ==
    /\ req[r].pc = "construct"
    /\ models' = Append(models, NewLeadScoringModel)
    /\ model_instance' = Len(models) + 1
    /\ req' = [req EXCEPT ![r].pc = "return_model"]
    /\ UNCHANGED <<metrics, call, tasks, now>>
    /\ UNCHANGED lakeVars

\* get_model in a deployment: _model_instance = LeadScoringModel() with
\* MODEL_ENDPOINT_PROVIDER set to anything; what the constructor raises leaves
\* the handler's try block as HTTPException 500
GetModelConstructEnv(r) ==
    /\ req[r].pc = "construct"
    /\ \E args \in {a \in ConstructorArgs : a.model_path = NoneVal} :
         LET made == LeadScoringModel(args.model_path, args.provider,
                                      args.configured)
         IN IF made.raised
            THEN /\ req' = [req EXCEPT ![r] = GetModelRaised(@, "ValueError")]
                 /\ UNCHANGED <<models, model_instance>>
            ELSE /\ models' = Append(models, made.instance)
                 /\ model_instance' = Len(models) + 1
                 /\ req' = [req EXCEPT ![r].pc = "return_model"]
    /\ UNCHANGED <<metrics, call, tasks, now>>
    /\ UNCHANGED lakeVars

\* how many reload_model calls were made, and the instance the last one
\* that returned has assigned (0 when none has)
ReloadsDone == IF call.called THEN call.reloads ELSE 0

LastReloaded == IF call.called THEN call.instance ELSE 0

\* the value of _model_instance after "_model_instance =
\* LeadScoringModel(model_path)": the new instance, or what it was when the
\* constructor raised
reload_model_assign(made, current, fresh) ==
    IF made.raised THEN current ELSE fresh

\* the version of the instance the global names
ActiveVersion ==
    IF model_instance = 0 THEN NoneVal
    ELSE models[model_instance].model_version

\* reload_model(model_path): _model_instance = LeadScoringModel(model_path),
\* the assignment made once the constructor has returned; a constructor that
\* raises leaves the global as it was
ReloadModel ==
    /\ ReloadsDone < MaxReloads
    /\ \E args \in {a \in ConstructorArgs : a.provider = "local"
                                             /\ a.model_path # NoneVal} :
         LET made == LeadScoringModel(args.model_path, args.provider,
                                      args.configured)
         IN /\ models' = IF made.raised THEN models
                         ELSE Append(models, made.instance)
            /\ model_instance' = reload_model_assign(made, model_instance,
                                                     Len(models) + 1)
            /\ call' = [ called |-> TRUE, method |-> "reload_model",
                         model_path |-> args.model_path,
                         raised |-> made.raised,
                         before |-> model_instance,
                         version |-> ActiveVersion,
                         instance |-> IF made.raised THEN LastReloaded
                                      ELSE Len(models) + 1,
                         reloads |-> ReloadsDone + 1 ]
    /\ UNCHANGED metrics
    /\ UNCHANGED <<routeVars, lakeVars>>

\* get_model: "return _model_instance" after the assignment, which reads
\* the global again
GetModelReturn(r) ==
    /\ req[r].pc = "return_model"
    /\ req' = [req EXCEPT ![r] = AfterGetModel(@, model_instance)]
    /\ UNCHANGED <<tasks, now>>
    /\ UNCHANGED <<modelVars, lakeVars>>

HandlerModelGlobal(q) == model_instance

\* the instance a handler calls predict on: its local variable model
HandlerModel(q) == q.model

\* the bookkeeping of a handler after one lead
AfterLead(q, out, one) ==
    [q EXCEPT !.predict_calls = @ + 1,
              !.used = Append(@, [ model  |-> HandlerModel(q),
                                   active |-> model_instance ]),
              !.predict_returns = IF out.raised THEN @ ELSE @ + 1,
              !.error_type = one.error_type,
              !.responses = IF one.raised THEN <<>> ELSE Append(@, one.response),
              !.i = IF one.raised THEN @ ELSE @ + 1]

\* score_lead after get_model: predict, build the response, read the clock,
\* schedule the write, return; any exception becomes HTTPException 500
ScoreLead(r) ==
    /\ req[r].pc = "score"
    /\ \E answer \in Answers(models[HandlerModel(req[r])]) :
         LET m   == models[HandlerModel(req[r])]
             out == predict(m, req[r].features, answer, "none")
             one == ScoreOneLead(r, m, req[r].first, out, now + 1)
         IN /\ metrics' = RecordPredict(metrics, out)
            /\ req' = [req EXCEPT ![r] =
                         Finished(AfterLead(@, out, one),
                                  IF one.raised THEN 500 ELSE 200)]
            /\ tasks' = IF one.raised THEN tasks ELSE Append(tasks, one.task)
            /\ now' = IF one.raised THEN now ELSE now + 1
    /\ UNCHANGED <<models, model_instance, call>>
    /\ UNCHANGED lakeVars

\* score_leads_batch: responses = [], batch_timestamp = datetime.now(UTC)
BatchBegin(r) ==
    /\ req[r].pc = "batch_begin"
    /\ now' = now + 1
    /\ req' = [req EXCEPT ![r].batch_timestamp = now', ![r].pc = "batch_loop"]
    /\ UNCHANGED tasks
    /\ UNCHANGED <<modelVars, lakeVars>>

AfterBatchEntrySkipping(q, out, one) ==
    [AfterLead(q, out, one) EXCEPT !.responses = IF one.raised THEN q.responses
                                                 ELSE @,
                                   !.i = q.i + 1]

\* the handler after one pass of the loop: on to the next entry, or out
\* through the except clause with HTTPException 500
AfterBatchEntry(q, out, one) ==
    IF one.raised
    THEN Finished(AfterLead(q, out, one), 500)
    ELSE AfterLead(q, out, one)

\* score_leads_batch: one pass of "for req in requests"; an exception ends
\* the handler with HTTPException 500 and drops the responses built so far
BatchEntry(r) ==
    /\ req[r].pc = "batch_loop"
    /\ req[r].i <= req[r].n
    /\ \E answer \in Answers(models[HandlerModel(req[r])]) :
         LET m   == models[HandlerModel(req[r])]
             out == predict(m, req[r].features, answer, "none")
             one == ScoreOneLead(r, m, LeadAt(req[r].first, req[r].i), out,
                                 req[r].batch_timestamp)
         IN /\ metrics' = RecordPredict(metrics, out)
            /\ req' = [req EXCEPT ![r] = AfterBatchEntry(@, out, one)]
            /\ tasks' = IF one.raised THEN tasks ELSE Append(tasks, one.task)
    /\ UNCHANGED <<models, model_instance, call, now>>
    /\ UNCHANGED lakeVars

\* score_leads_batch: return responses
BatchReturn(r) ==
    /\ req[r].pc = "batch_loop"
    /\ req[r].i > req[r].n
    /\ req' = [req EXCEPT ![r] = Finished(@, 200)]
    /\ UNCHANGED <<tasks, now>>
    /\ UNCHANGED <<modelVars, lakeVars>>

----------------------------------------------------------------------------
(* api/app/datalake.py. Python's True and False are the strings "True" and *)
(* "False" here, next to "raised" for a call that raised.                  *)

\* os.getenv("DATALAKE_PROVIDER", "none"), "unset" being no such variable
EnvProviders == {"unset", "none", "s3", "S3", "azure", "Azure", "unknown"}

\* get_datalake_writer: the class the provider selects
WriterClass(env) ==
    LET provider == Lower(IF env = "unset" THEN "none" ELSE env) IN
    IF provider = "s3" THEN "S3DataLakeWriter"
    ELSE IF provider = "azure" THEN "AzureDataLakeWriter"
    ELSE "NoOpDataLakeWriter"

\* what stands behind the name get_datalake_writer during a call: the
\* function itself, or one of the test doubles of test_datalake.py (a
\* MagicMock whose write_result returns a value or raises, or a patch that
\* raises itself)
Patches == {"real", "mock_true", "mock_false", "mock_write_raises",
            "mock_get_raises"}

\* write_result of each writer: the three classes, and the mocks
write_result(writer) ==
    CASE writer = "NoOpDataLakeWriter" -> "True"
      [] writer = "S3DataLakeWriter" -> "False"
      [] writer = "AzureDataLakeWriter" -> "False"
      [] writer = "mock_true" -> "True"
      [] writer = "mock_false" -> "False"
      [] writer = "mock_write_raises" -> "raised"

ReturnOrPropagate(outcome) ==
    IF outcome = "raised"
    THEN [ raised |-> TRUE, result |-> NoneVal ]
    ELSE [ raised |-> FALSE, result |-> outcome ]

\* write_scoring_result: return what the try block gave, or False from the
\* except clause
ReturnOrFalse(outcome) ==
    IF outcome = "raised"
    THEN [ raised |-> FALSE, result |-> "False" ]
    ELSE [ raised |-> FALSE, result |-> outcome ]

\* the arguments of a write_scoring_result call
WriteArgs ==
    { [ lead_id |-> l, bucket |-> 1, tier |-> "High", raw_score |-> 9,
        model_version |-> <<"v", "1">>, timestamp |-> 0,
        features |-> features_dict ] : l \in LeadIds }

NoArgs == [ lead_id |-> NoneVal ]

\* a caller enters write_scoring_result
WriteScoringResultCall ==
    /\ Len(thr) < NumThreads
    /\ \E args \in WriteArgs, patch \in Patches :
         thr' = Append(thr, [ pc |-> "get_writer", args |-> args,
                              patch |-> patch, writer |-> NoneVal,
                              write_calls |-> 0, received |-> NoArgs,
                              outcome |-> NoneVal,
                              raised |-> FALSE, result |-> NoneVal ])
    /\ UNCHANGED <<writers, writer_instance>>
    /\ UNCHANGED <<modelVars, routeVars>>

\* writer = get_datalake_writer(): a patch answers at once; the function
\* itself tests "if _writer_instance is None" and returns the instance when
\* there is one
GetWriterCheck(t) ==
    /\ thr[t].pc = "get_writer"
    /\ thr' = [thr EXCEPT ![t] =
         IF thr[t].patch = "mock_get_raises"
         THEN LET fin == ReturnOrFalse("raised") IN
              [@ EXCEPT !.pc = "done", !.outcome = "get_raised",
                        !.raised = fin.raised, !.result = fin.result]
         ELSE IF thr[t].patch # "real"
         THEN [@ EXCEPT !.pc = "write", !.writer = thr[t].patch]
         ELSE IF writer_instance = 0
         THEN [@ EXCEPT !.pc = "construct"]
         ELSE [@ EXCEPT !.pc = "write", !.writer = writers[writer_instance]]]
    /\ UNCHANGED <<writers, writer_instance>>
    /\ UNCHANGED <<modelVars, routeVars>>

\* get_datalake_writer: read the provider, construct, assign the global
GetWriterConstruct(t) ==
    /\ thr[t].pc = "construct"
    /\ \E env \in EnvProviders :
         writers' = Append(writers, WriterClass(env))
    /\ writer_instance' = Len(writers) + 1
    /\ thr' = [thr EXCEPT ![t].pc = "return_writer"]
    /\ UNCHANGED <<modelVars, routeVars>>

\* get_datalake_writer: "return _writer_instance" after the assignment
GetWriterReturn(t) ==
    /\ thr[t].pc = "return_writer"
    /\ thr' = [thr EXCEPT ![t].pc = "write",
                          ![t].writer = writers[writer_instance]]
    /\ UNCHANGED <<writers, writer_instance>>
    /\ UNCHANGED <<modelVars, routeVars>>

\* return writer.write_result(...), inside the try block
WriteResult(t) ==
    /\ thr[t].pc = "write"
    /\ LET outcome == write_result(thr[t].writer)
           fin     == ReturnOrFalse(outcome)
       IN thr' = [thr EXCEPT ![t].pc = "done",
                             ![t].write_calls = @ + 1,
                             ![t].received = thr[t].args,
                             ![t].outcome = outcome,
                             ![t].raised = fin.raised,
                             ![t].result = fin.result]
    /\ UNCHANGED <<writers, writer_instance>>
    /\ UNCHANGED <<modelVars, routeVars>>

\* write_batch_results of each writer class
write_batch_results_enabled(writer, results) ==
    CASE writer = "NoOpDataLakeWriter" -> "True"
      [] writer = "S3DataLakeWriter" -> IF results = <<>> THEN "False" ELSE "True"
      [] writer = "AzureDataLakeWriter" -> "False"

write_batch_results(writer, results) ==
    CASE writer = "NoOpDataLakeWriter" -> "True"
      [] writer = "S3DataLakeWriter" -> "False"
      [] writer = "AzureDataLakeWriter" -> "False"

WriterClasses ==
    {"NoOpDataLakeWriter", "S3DataLakeWriter", "AzureDataLakeWriter"}

\* the lists handed to write_batch_results: none, one or two results
ResultLists ==
    {<<>>} \cup {<<a>> : a \in WriteArgs}
           \cup {<<a, b>> : a \in WriteArgs, b \in WriteArgs}

\* a writer constructed directly, as test_noop_writer does: the global is
\* not involved
ConstructWriter ==
    /\ Len(writers) < MaxWriters
    /\ \E cls \in WriterClasses :
         /\ writers' = Append(writers, cls)
         /\ call' = [ called |-> TRUE, method |-> "__init__", class |-> cls ]
    /\ UNCHANGED <<writer_instance, thr>>
    /\ UNCHANGED <<models, model_instance, metrics>>
    /\ UNCHANGED routeVars

\* writer.write_result(...) on a constructed writer
WriteResultOn ==
    /\ \E w \in 1..Len(writers), args \in WriteArgs :
         call' = [ called |-> TRUE, method |-> "write_result", writer |-> w,
                   args |-> args, before |-> writers,
                   out |-> [ raised |-> FALSE,
                             result |-> write_result(writers[w]) ] ]
    /\ UNCHANGED lakeVars
    /\ UNCHANGED <<models, model_instance, metrics>>
    /\ UNCHANGED routeVars

\* writer.write_batch_results(results) on a constructed writer
WriteBatchResultsOn ==
    /\ \E w \in 1..Len(writers), results \in ResultLists :
         call' = [ called |-> TRUE, method |-> "write_batch_results",
                   writer |-> w, args |-> results, before |-> writers,
                   out |-> [ raised |-> FALSE,
                             result |-> write_batch_results(writers[w],
                                                            results) ] ]
    /\ UNCHANGED lakeVars
    /\ UNCHANGED <<models, model_instance, metrics>>
    /\ UNCHANGED routeVars

----------------------------------------------------------------------------
(* api/routes/health.py *)

readiness_answer_any_instance(m) ==
    [ status |-> 200,
      body   |-> [ status |-> "ready", model_version |-> m.model_version ] ]

\* readiness_check once get_model has returned: 503 unless the instance
\* holds a booster
readiness_answer(m) ==
    IF m.model = NoneVal
    THEN [ status |-> 503, body |-> NoneVal ]
    ELSE [ status |-> 200,
           body   |-> [ status |-> "ready", model_version |-> m.model_version ] ]

\* GET /health/ready reaches readiness_check
ReadinessCheckCall ==
    /\ Len(req) < NumRequests
    /\ req' = Append(req, NewRequest("ready", "BATCH-0", 0))
    /\ UNCHANGED <<tasks, now>>
    /\ UNCHANGED <<modelVars, lakeVars>>

\* readiness_check after get_model
ReadinessAnswer(r) ==
    /\ req[r].pc = "ready"
    /\ LET answer == readiness_answer(models[req[r].model]) IN
       req' = [req EXCEPT ![r] =
                 Finished([@ EXCEPT !.responses =
                               IF answer.status = 200 THEN <<answer.body>>
                               ELSE <<>>],
                          answer.status)]
    /\ UNCHANGED <<tasks, now>>
    /\ UNCHANGED <<modelVars, lakeVars>>

----------------------------------------------------------------------------
(* api/middleware/metrics.py: MetricsMiddleware.dispatch. The gauge        *)
(* ACTIVE_REQUESTS is the field active_requests of metrics. dispatch is a  *)
(* coroutine: what it does before and after "await call_next(request)"    *)
(* runs without interruption, and other requests run during the await.     *)
(* _update_system_metrics sets gauges not modelled here and catches what   *)
(* it raises.                                                              *)

\* the Content-Length header of a request: absent, a number, not a number
ContentLengths == {NoneVal, "0", "348", "abc"}

\* int(request.headers.get("content-length", 0)): the size, or ValueError
parse_content_length(header) ==
    CASE header = NoneVal -> [ raised |-> FALSE, size |-> 0 ]
      [] header = "0"     -> [ raised |-> FALSE, size |-> 0 ]
      [] header = "348"   -> [ raised |-> FALSE, size |-> 348 ]
      [] OTHER            -> [ raised |-> TRUE, size |-> 0 ]

\* what call_next does: the status of the response, or an exception
CallNextOutcomes ==
    {[ raised |-> FALSE, status |-> st, exception_type |-> NoneVal ] :
        st \in {200, 401, 422, 500}}
        \cup {[ raised |-> TRUE, status |-> 0, exception_type |-> "RuntimeError" ]}

\* dispatch up to the await: ACTIVE_REQUESTS.inc(), the endpoint, the
\* request size; all of it before the try statement
DispatchEnter ==
    /\ Len(req) < MaxDispatches
    /\ \E header \in ContentLengths :
         LET size == parse_content_length(header) IN
         req' = Append(req,
                  [ kind |-> "dispatch", content_length |-> header,
                    pc |-> IF size.raised THEN "done" ELSE "call_next",
                    raised |-> size.raised,
                    exception_type |-> IF size.raised THEN "ValueError"
                                       ELSE NoneVal,
                    size_observed |-> ~size.raised /\ size.size > 0,
                    status_label |-> 0, error_counted |-> FALSE ])
    /\ metrics' = [metrics EXCEPT !.active_requests = @ + 1]
    /\ UNCHANGED <<models, model_instance, call, tasks, now>>
    /\ UNCHANGED lakeVars

\* dispatch from the await on: the response counted under its status, or
\* the exception counted under 500 and raised again; the finally clause
\* decrements the gauge
DispatchCallNext(r) ==
    /\ req[r].kind = "dispatch"
    /\ req[r].pc = "call_next"
    /\ \E o \in CallNextOutcomes :
         req' = [req EXCEPT ![r] =
                   [@ EXCEPT !.pc = "done",
                             !.raised = o.raised,
                             !.exception_type = o.exception_type,
                             !.status_label = IF o.raised THEN 500 ELSE o.status,
                             !.error_counted = o.raised]]
    /\ metrics' = [metrics EXCEPT !.active_requests = @ - 1]
    /\ UNCHANGED <<models, model_instance, call, tasks, now>>
    /\ UNCHANGED lakeVars

\* the requests inside dispatch
InFlight == {r \in 1..Len(req) : req[r].pc # "done"}

----------------------------------------------------------------------------
(* The process after import: no model and no writer constructed yet (the   *)
(* tests' TestClient does not run the lifespan hook that calls get_model   *)
(* at startup), every collector at zero, no request received.              *)

Init ==
    /\ models = <<>>
    /\ model_instance = 0
    /\ metrics = InitMetrics
    /\ call = NoCall
    /\ req = <<>>
    /\ tasks = <<>>
    /\ now = 0
    /\ writers = <<>>
    /\ writer_instance = 0
    /\ thr = <<>>

NextPredict == ConstructModel \/ PredictCall

SpecPredict == Init /\ [][NextPredict]_vars

NextPreprocess == ConstructModel \/ PreprocessCall

SpecPreprocess == Init /\ [][NextPreprocess]_vars

NextBackends ==
    \/ ConstructModelWith
    \/ PredictOn
    \/ PredictBatchOn
    \/ LoadModelOn
    \/ SaveModelOn
    \/ GetModelInfoOn
    \/ GetFeatureImportanceOn
    \/ HealthCheckOn

SpecBackends == Init /\ [][NextBackends]_vars

NextService ==
    \/ PostScore
    \/ PostScoreBatch
    \/ \E r \in 1..Len(req) : GetModelCheck(r)
    \/ \E r \in 1..Len(req) : GetModelConstructEnv(r)
    \/ \E r \in 1..Len(req) : GetModelReturn(r)
    \/ \E r \in 1..Len(req) : ScoreLead(r)
    \/ \E r \in 1..Len(req) : BatchBegin(r)
    \/ \E r \in 1..Len(req) : BatchEntry(r)
    \/ \E r \in 1..Len(req) : BatchReturn(r)

SpecService == Init /\ [][NextService]_vars

NextReload ==
    \/ ScoreLeadCall
    \/ ReloadModel
    \/ \E r \in 1..Len(req) : GetModelCheck(r)
    \/ \E r \in 1..Len(req) : GetModelConstruct(r)
    \/ \E r \in 1..Len(req) : GetModelReturn(r)
    \/ \E r \in 1..Len(req) : ScoreLead(r)

SpecReload == Init /\ [][NextReload]_vars

Next ==
    \/ ScoreLeadCall
    \/ ScoreLeadsBatchCall
    \/ \E r \in 1..Len(req) : GetModelCheck(r)
    \/ \E r \in 1..Len(req) : GetModelConstruct(r)
    \/ \E r \in 1..Len(req) : GetModelReturn(r)
    \/ \E r \in 1..Len(req) : ScoreLead(r)
    \/ \E r \in 1..Len(req) : BatchBegin(r)
    \/ \E r \in 1..Len(req) : BatchEntry(r)
    \/ \E r \in 1..Len(req) : BatchReturn(r)

Spec == Init /\ [][Next]_vars

NextDatalake ==
    \/ WriteScoringResultCall
    \/ \E t \in 1..Len(thr) : GetWriterCheck(t)
    \/ \E t \in 1..Len(thr) : GetWriterConstruct(t)
    \/ \E t \in 1..Len(thr) : GetWriterReturn(t)
    \/ \E t \in 1..Len(thr) : WriteResult(t)

SpecDatalake == Init /\ [][NextDatalake]_vars

NextHealth ==
    \/ ReadinessCheckCall
    \/ ReloadModel
    \/ \E r \in 1..Len(req) : GetModelCheck(r)
    \/ \E r \in 1..Len(req) : GetModelConstructEnv(r)
    \/ \E r \in 1..Len(req) : GetModelReturn(r)
    \/ \E r \in 1..Len(req) : ReadinessAnswer(r)

SpecHealth == Init /\ [][NextHealth]_vars

NextMiddleware ==
    \/ DispatchEnter
    \/ \E r \in 1..Len(req) : DispatchCallNext(r)

SpecMiddleware == Init /\ [][NextMiddleware]_vars

NextMetrics ==
    \/ ConstructModelWith
    \/ PredictRecorded

SpecMetrics == Init /\ [][NextMetrics]_vars

NextBatchReload ==
    \/ PostScoreBatch
    \/ ReloadModel
    \/ \E r \in 1..Len(req) : GetModelCheck(r)
    \/ \E r \in 1..Len(req) : GetModelConstruct(r)
    \/ \E r \in 1..Len(req) : GetModelReturn(r)
    \/ \E r \in 1..Len(req) : BatchBegin(r)
    \/ \E r \in 1..Len(req) : BatchEntry(r)
    \/ \E r \in 1..Len(req) : BatchReturn(r)

SpecBatchReload == Init /\ [][NextBatchReload]_vars

NextBatch ==
    \/ ConstructModelWith
    \/ PredictBatchCall

SpecBatch == Init /\ [][NextBatch]_vars

NextWriters ==
    \/ ConstructWriter
    \/ WriteResultOn
    \/ WriteBatchResultsOn

SpecWriters == Init /\ [][NextWriters]_vars

----------------------------------------------------------------------------
(* Properties *)

TasksOf(r) == {k \in 1..Len(tasks) : tasks[k].req = r}

Complete(features) == \A n \in FeatureNameSet : features[n] # <<>>

\* C1: under every interleaving of concurrent first calls, get_model
\* constructs exactly one LeadScoringModel and every caller holds that same
\* instance.
C1_ModelConstructedOnce ==
    /\ Len(models) <= 1
    /\ \A r1, r2 \in 1..Len(req) :
         (req[r1].model # 0 /\ req[r2].model # 0)
             => req[r1].model = req[r2].model

\* C2: a batch of more than 100 entries is answered 400 at once: predict is
\* never called for it and no write is scheduled for it.
C2_OversizedBatchRejected ==
    \A r \in 1..Len(req) :
        (req[r].kind = "batch" /\ req[r].n > 100)
            => /\ req[r].pc = "done"
               /\ req[r].status = 400
               /\ req[r].predict_calls = 0
               /\ req[r].responses = <<>>
               /\ TasksOf(r) = {}

C2_Witness ==
    \E r \in 1..Len(req) :
        /\ req[r].kind = "batch"
        /\ req[r].n = 101
        /\ req[r].status = 400

\* C3: a batch of n <= 100 valid requests is answered 200 with n responses
\* whose lead_ids are the requests' lead_ids in order, every entry scored and
\* one write scheduled per entry.
C3_BatchScoresEveryEntry ==
    \A r \in 1..Len(req) :
        (req[r].kind = "batch" /\ req[r].n <= 100 /\ req[r].pc = "done")
            => /\ req[r].status = 200
               /\ req[r].predict_calls = req[r].n
               /\ Len(req[r].responses) = req[r].n
               /\ \A i \in 1..Len(req[r].responses) :
                    req[r].responses[i].lead_id = LeadAt(req[r].first, i)
               /\ Cardinality(TasksOf(r)) = req[r].n

\* C5: write_scoring_result never raises; when obtaining the writer or
\* write_result raised it returns False, otherwise it returns what
\* write_result returned, write_result having been called once with the
\* caller's arguments.
C5_WriteScoringResultNeverRaises ==
    \A t \in 1..Len(thr) :
        /\ thr[t].raised = FALSE
        /\ thr[t].write_calls <= 1
        /\ thr[t].pc = "done" =>
             IF thr[t].outcome \in {"True", "False"}
             THEN /\ thr[t].result = thr[t].outcome
                  /\ thr[t].write_calls = 1
                  /\ thr[t].received = thr[t].args
             ELSE /\ thr[t].outcome \in {"raised", "get_raised"}
                  /\ thr[t].result = "False"

C5_Witness ==
    \E t1, t2 \in 1..Len(thr) :
        /\ thr[t1].pc = "done" /\ thr[t1].outcome = "raised"
        /\ thr[t1].result = "False"
        /\ thr[t2].pc = "done" /\ thr[t2].outcome = "True"
        /\ thr[t2].result = "True" /\ thr[t2].received = thr[t2].args

\* C6: a single-lead request whose scoring succeeded is answered 200 and has
\* exactly one write scheduled, carrying the response's lead_id, raw_score,
\* bucket, tier and model version; one whose scoring failed has none.
C6_SingleLeadWriteScheduled ==
    \A r \in 1..Len(req) :
        (req[r].kind = "single" /\ req[r].pc = "done")
            => IF req[r].predict_returns = 1
               THEN /\ req[r].status = 200
                    /\ Len(req[r].responses) = 1
                    /\ Cardinality(TasksOf(r)) = 1
                    /\ \A k \in TasksOf(r) :
                         LET resp == req[r].responses[1] IN
                         /\ tasks[k].lead_id = resp.lead_id
                         /\ tasks[k].raw_score = resp.score.raw_score
                         /\ tasks[k].bucket = resp.score.bucket
                         /\ tasks[k].tier = resp.score.tier
                         /\ tasks[k].model_version = resp.model.version
               ELSE TasksOf(r) = {}

\* C7: for a complete feature mapping predict returns a 4-tuple (raw_score,
\* bucket, tier, latency_ms): raw_score in [0,1], bucket in 1..5, tier one of
\* A..E, latency_ms >= 0.
C7_PredictReturnsFourTuple ==
    (call.called /\ Complete(call.features))
        => /\ ~call.out.raised
           /\ Len(call.out.result) = 4
           /\ call.out.result[1] \in 0..Unit
           /\ call.out.result[2] \in 1..5
           /\ call.out.result[3] \in ResponseTiers
           /\ call.out.result[4] >= 0

\* C8: score_lead, with the local backend, answers every authenticated valid
\* request with 200 and a response that has the request's lead_id, a model
\* name starting with xgboost_lead_score_v and a valid score.
C8_ScoreLeadAnswers200 ==
    \A r \in 1..Len(req) :
        (req[r].kind = "single" /\ req[r].pc = "done")
            => /\ req[r].status = 200
               /\ Len(req[r].responses) = 1
               /\ req[r].responses[1].lead_id = req[r].first
               /\ req[r].responses[1].model.name[1] = "xgboost_lead_score_v"
               /\ ScoreInfoValid(req[r].responses[1].score.raw_score,
                                 req[r].responses[1].score.bucket,
                                 req[r].responses[1].score.tier)

\* 5 -> A, 4 -> B, 3 -> C, 2 -> D, 1 -> E
BucketTier(bucket) ==
    CASE bucket = 5 -> "A" [] bucket = 4 -> "B" [] bucket = 3 -> "C"
      [] bucket = 2 -> "D" [] bucket = 1 -> "E"

\* C9: every raw_score in [0,1] gets exactly one bucket in 1..5, and the
\* tier returned with it is the one the bijection 5->A .. 1->E gives.
C9_BucketTierBijection ==
    (call.called /\ ~call.out.raised)
        => /\ Len(call.out.result) = 4
           /\ call.out.result[2] \in 1..5
           /\ call.out.result[3] = BucketTier(call.out.result[2])

\* C10: a score on a threshold gets the higher class: 0.7 and above is hot,
\* 0.4 up to but not including 0.7 is warm, below 0.4 is cold.
C10_ThresholdInclusive ==
    (call.called /\ ~call.out.raised)
        => LET score == call.out.result[1]
               tier  == call.out.result[3]
           IN /\ score = call.pred
              /\ tier \in {"hot", "warm", "cold"}
              /\ (tier = "hot") = (score >= 7)
              /\ (tier = "warm") = (score >= 4 /\ score < 7)
              /\ (tier = "cold") = (score < 4)

C10_Witness ==
    /\ call.called
    /\ ~call.out.raised
    /\ call.out.result[1] = 7
    /\ call.out.result[3] = "hot"

\* the dict holds a number under every feature name
Present(d) ==
    \A n \in FeatureNameSet :
        \E i \in 1..Len(d) : d[i][1] = n /\ d[i][2] # <<>>

\* C11: for a dict that holds a number under each of the 50 feature names,
\* preprocess_features returns one row with one value per name, the i-th
\* being the value stored under the i-th feature name, whatever the order of
\* the keys and whatever other keys there are; the dict is left as it was.
C11_RowInFeatureOrder ==
    /\ Len(AllFeatureNames) = 50
    /\ (call.called /\ call.method = "preprocess_features"
            /\ Present(call.features))
         => /\ ~call.out.raised
            /\ Len(call.out.X) = Len(feature_names)
            /\ \A i \in 1..Len(feature_names) :
                 \E j \in 1..Len(call.features) :
                    call.features[j] = <<feature_names[i], <<call.out.X[i]>>>>
            /\ call.after = call.features

C11_Witness ==
    /\ call.called
    /\ call.method = "preprocess_features"
    /\ Present(call.features)
    /\ Len(call.features) = Len(feature_names) + 1
    /\ call.features[Len(call.features)][1] = feature_names[1]
    /\ ~call.out.raised
    /\ call.out.X[1] # call.out.X[Len(feature_names)]

\* C12: when features are missing, predict raises ValueError naming the
\* first missing feature in feature_names order, and asks no backend.
C12_FirstMissingNamed ==
    (call.called /\ ~Complete(call.features))
        => /\ call.out.raised
           /\ call.out.error_type = "ValueError"
           /\ call.out.backend = "none"
           /\ \E k \in 1..Len(feature_names) :
                /\ call.out.missing = feature_names[k]
                /\ call.features[feature_names[k]] = <<>>
                /\ \A j \in 1..(k - 1) : call.features[feature_names[j]] # <<>>

C12_Witness ==
    /\ call.called
    /\ \A n \in FeatureNameSet : call.features[n] = <<>>
    /\ call.out.raised
    /\ call.out.missing = feature_names[1]

\* C13: with a remote backend, whatever makes a prediction fail, predict
\* raises the endpoint client's RuntimeError and nothing else.
C13_RemoteFailureTranslated ==
    (call.called /\ call.method = "predict"
        /\ models[call.model].endpoint_client # NoneVal
        /\ call.features = sample_features
        /\ call.fault = "none"
        /\ call.out.raised)
        => call.out.error_type = "RuntimeError"

C15_CollectorFailureHarmless ==
    (call.called /\ call.method = "predict")
        => LET clean == predict(models[call.model], call.features,
                                call.answer, "none")
           IN ~clean.raised
                => /\ ~call.out.raised
                   /\ call.out.result = clean.result

\* the features posted with a request do not validate as LeadFeatures
InvalidPosted(q) ==
    /\ q.n > 0
    /\ \E n \in FeatureNameSet : FieldValue(n, q.features[n]).raised

\* C16: a request whose features are missing or out of range and a request
\* whose backend failed never end with the same status: the first is
\* answered 422 without the model being asked, the second 500.
C16_ValidationAndBackendDistinct ==
    \A r \in 1..Len(req) :
        LET q == req[r] IN
        /\ (q.api_key \in VALID_API_KEYS /\ InvalidPosted(q))
             => /\ q.pc = "done"
                /\ q.status = 422
                /\ q.error_type = "RequestValidationError"
                /\ q.predict_calls = 0
        /\ q.error_type = "RuntimeError"
             => /\ q.status = 500
                /\ ~InvalidPosted(q)
        /\ q.status = 500 => ~InvalidPosted(q)

C16_Witness ==
    \E r \in 1..Len(req) :
        /\ req[r].pc = "done"
        /\ req[r].error_type = "RuntimeError"
        /\ req[r].status = 500
        /\ req[r].predict_calls = 1

\* C17: once reload_model has assigned its new instance, the global holds
\* that instance, so every get_model() after the reload returns it.
C17_ReloadedInstanceStays ==
    LastReloaded # 0 => model_instance = LastReloaded

\* C18: no method call changes endpoint_provider or endpoint_client of an
\* instance, and predict asks the remote client exactly when the instance
\* was constructed with a provider other than local.
C18_BackendFixedAtConstruction ==
    /\ [][\A i \in 1..Len(models) :
            /\ models'[i].endpoint_provider = models[i].endpoint_provider
            /\ models'[i].endpoint_client = models[i].endpoint_client]_vars
    /\ []((call.called /\ call.method = "predict"
              /\ call.out.backend # "none")
            => ((call.out.backend = "remote")
                  <=> (Lower(models[call.model].endpoint_provider) # "local")))

C18_Witness ==
    /\ call.called
    /\ call.method = "predict"
    /\ models[call.model].endpoint_client # NoneVal
    /\ models[call.model].model \in ModelFiles
    /\ call.out.backend = "remote"

\* C19: DATALAKE_PROVIDER selects the writer class without regard to case,
\* none, unset and unknown values giving the no-op writer, and the writer is
\* constructed once, every call returning that one instance.
C19_WriterResolvedOnce ==
    /\ \A env \in EnvProviders :
         WriterClass(env) =
            IF env \in {"s3", "S3"} THEN "S3DataLakeWriter"
            ELSE IF env \in {"azure", "Azure"} THEN "AzureDataLakeWriter"
            ELSE "NoOpDataLakeWriter"
    /\ Len(writers) <= 1

\* C20: a request without X-API-Key or with a key that is not configured is
\* answered 401 with no predict call, no response and no write scheduled; a
\* request with a configured key is never answered 401.
C20_UnauthenticatedRejected ==
    \A r \in 1..Len(req) :
        LET q == req[r] IN
        /\ q.api_key \notin VALID_API_KEYS
             => /\ q.pc = "done"
                /\ q.status = 401
                /\ q.predict_calls = 0
                /\ q.responses = <<>>
                /\ TasksOf(r) = {}
        /\ q.api_key \in VALID_API_KEYS => q.status # 401

C20_Witness ==
    \E r \in 1..Len(req) :
        /\ req[r].api_key = "invalid-key"
        /\ req[r].pc = "done"
        /\ req[r].status = 401

\* the posted features break the declaration of some field: a value under
\* ge or over le, or nothing posted for a field without a default
DeclaredInvalid(posted) ==
    \E n \in FeatureNameSet :
        LET f == LeadFeaturesField(n)
            v == posted[n]
        IN \/ v = <<>> /\ f.default = <<>>
           \/ /\ v # <<>>
              /\ \/ f.ge # <<>> /\ v[1] < f.ge[1]
                 \/ f.le # <<>> /\ v[1] > f.le[1]

\* C21: a request with a configured key whose features hold a value outside
\* its declared range, or lack a field that has no default, is answered 422:
\* no predict call, no response, no write scheduled, and the posted value is
\* not replaced by one in range.
C21_OutOfRangeRejected ==
    \A r \in 1..Len(req) :
        LET q == req[r] IN
        (q.api_key \in VALID_API_KEYS /\ q.n > 0 /\ DeclaredInvalid(q.posted))
            => /\ q.pc = "done"
               /\ q.status = 422
               /\ q.predict_calls = 0
               /\ q.responses = <<>>
               /\ TasksOf(r) = {}
               /\ q.features = q.posted

C21_Witness ==
    \E r \in 1..Len(req) :
        /\ req[r].api_key \in VALID_API_KEYS
        /\ req[r].posted["bounce_rate"] = <<2>>
        /\ req[r].pc = "done"
        /\ req[r].status = 422

\* C22: the raw score predict returns lies in [0,1], whatever the backend
\* answered with.
C22_RawScoreInUnitInterval ==
    (call.called /\ call.method = "predict" /\ ~call.out.raised)
        => call.out.result[1] \in 0..Unit

\* C23: write_result and write_batch_results return True on the no-op
\* writer and False on the S3 and Azure writers, whatever they are handed,
\* without raising and without changing a writer.
C23_WritersReturnValues ==
    (call.called /\ call.method \in {"write_result", "write_batch_results"})
        => /\ ~call.out.raised
           /\ call.out.result =
                 (IF writers[call.writer] = "NoOpDataLakeWriter"
                  THEN "True" ELSE "False")
           /\ writers = call.before

C23_Witness ==
    /\ call.called
    /\ call.method = "write_batch_results"
    /\ writers[call.writer] = "S3DataLakeWriter"
    /\ Len(call.args) = 2
    /\ call.out.result = "False"

\* what predict gives for entry i of the list of the recorded predict_batch
\* call
EntryOut(i) ==
    predict(models[call.model], call.features_list[i], call.answers[i], "none")

\* C24: predict_batch returns one result per mapping, in the order of the
\* list, each the result predict gives for that mapping, and observes the
\* batch size once; when predict raises for an entry, predict_batch raises
\* that error and returns no list.
C24_BatchResultsInOrder ==
    (call.called /\ call.method = "predict_batch"
        /\ "features_list" \in DOMAIN call)
        => LET n      == Len(call.features_list)
               failed == {i \in 1..n : EntryOut(i).raised}
           IN /\ metrics.batch_obs = call.before.batch_obs + 1
              /\ failed = {}
                   => /\ ~call.raised
                      /\ Len(call.results) = n
                      /\ \A i \in 1..n : call.results[i] = EntryOut(i).result
              /\ failed # {}
                   => /\ call.raised
                      /\ call.results = <<>>
                      /\ \E i \in failed :
                           /\ \A j \in failed : i <= j
                           /\ call.error_type = EntryOut(i).error_type

C24_Witness ==
    /\ call.called
    /\ call.method = "predict_batch"
    /\ "features_list" \in DOMAIN call
    /\ Len(call.features_list) = 2
    /\ ~call.raised
    /\ call.results[1] # call.results[2]

\* C25: after a reload_model that raised while an instance was active, the
\* global still names that instance, with the version it had, so that is
\* what every later get_model() returns.
C25_FailedReloadKeepsInstance ==
    (call.called /\ call.method = "reload_model" /\ call.raised
        /\ call.before # 0)
        => /\ model_instance = call.before
           /\ ActiveVersion = call.version

\* C26: every predict call of a batch request is made on the instance its
\* one get_model() call returned, whatever reload_model has assigned to the
\* global since, and its responses and scheduled writes carry that
\* instance's version.
C26_BatchUsesOneInstance ==
    \A r \in 1..Len(req) :
        LET q == req[r] IN
        q.kind = "batch"
            => /\ \A i \in 1..Len(q.used) : q.used[i].model = q.obtained
               /\ \A i \in 1..Len(q.responses) :
                    q.responses[i].model.version
                        = models[q.obtained].model_version
               /\ \A t \in TasksOf(r) :
                    tasks[t].model_version = models[q.obtained].model_version

C26_Witness ==
    \E r \in 1..Len(req) :
        /\ req[r].kind = "batch"
        /\ req[r].predict_calls = 1
        /\ req[r].used[1].model = req[r].obtained
        /\ req[r].used[1].active # req[r].obtained
        /\ call.called
        /\ call.method = "reload_model"
        /\ call.before = req[r].obtained

\* C27: a batch request in which scoring an entry raised has ended with
\* status 500 and no responses, and nothing more happens in it: no entry
\* after the failing one is scored.
C27_BatchFailsFast ==
    /\ [](\A r \in 1..Len(req) :
            LET q == req[r] IN
            (q.kind = "batch" /\ q.predict_calls > 0
                /\ q.error_type # NoneVal)
                => /\ q.pc = "done"
                   /\ q.status = 500
                   /\ q.responses = <<>>
                   /\ q.predict_calls = q.predict_returns
                         + (IF q.error_type \in {"RuntimeError", "IndexError"}
                            THEN 1 ELSE 0))
    /\ [][\A r \in 1..Len(req) :
            (req[r].kind = "batch" /\ req[r].status = 500)
                => req'[r] = req[r]]_vars

C27_Witness ==
    \E r \in 1..Len(req) :
        /\ req[r].kind = "batch"
        /\ req[r].n = BatchCap
        /\ req[r].pc = "done"
        /\ req[r].status = 500
        /\ req[r].predict_calls = 1
        /\ req[r].responses = <<>>

\* the counter f with the entry under key k one higher
Bumped(f, k) == [f EXCEPT ![k] = @ + 1]

C29_GaugeBalanced ==
    /\ metrics.active_requests = Cardinality(InFlight)
    /\ metrics.active_requests >= 0

\* C30: readiness_check never raises; it answers 200 with "ready" and the
\* version of the active instance exactly when that instance holds a
\* booster, and 503 when the instance is a remote one or get_model raised.
C30_ReadyIffModelLoaded ==
    \A r \in 1..Len(req) :
        LET q == req[r] IN
        (q.kind = "ready" /\ q.pc = "done")
            => /\ q.error_type = NoneVal
               /\ q.status \in {200, 503}
               /\ q.status = 200
                    <=> (q.obtained # 0 /\ models[q.obtained].model # NoneVal)
               /\ q.status = 200
                    => q.responses =
                         <<[ status |-> "ready",
                             model_version |-> models[q.obtained].model_version ]>>
               /\ q.status = 503 => q.responses = <<>>

C30_Witness ==
    \E r \in 1..Len(req) :
        /\ req[r].kind = "ready"
        /\ req[r].pc = "done"
        /\ req[r].status = 503
        /\ req[r].obtained # 0
        /\ models[req[r].obtained].endpoint_client # NoneVal

====
